---- MODULE Spec2Model ----
(***************************************************************************)
(* The organization construct of packages/core/src/api.ts: class Org, a    *)
(* shared container holding a signing key pair and an invites key, with an *)
(* admin group, an everyone group and a list of signed members.            *)
(*                                                                         *)
(* Keys are numbers.  A key pair is one number k: k in a publicKey field   *)
(* is its public half, k in a privateKey field its private half.  0 is an  *)
(* absent (undefined) value.  Account a owns the key pair a; every key the *)
(* provider generates is the next unused number.                           *)
(*                                                                         *)
(* The crypto provider, SharedContainer, Group and Vault are imported by   *)
(* api.ts from files that are not part of the source tree at hand; they    *)
(* are modelled from sections 4.1, 4.5, 4.6 and 4.7 of the specification.  *)
(***************************************************************************)
EXTENDS Integers, Sequences, FiniteSets, TLC

\* Bounds of the model.
NumAccounts == 2
MaxOps == 3
MaxAborts == 1
NumCalls == 2

Accounts == 1..NumAccounts
VaultNames == {"Secrets", "Notes"}
OrgIds == {"org1"}
CallIds == 1..NumCalls

NoKey == 0
NoSig == [signer |-> NoKey, msg |-> NoKey]
NoData == [k |-> NoKey, data |-> <<>>]

AdminGroupId == NumAccounts + 1
EveryoneGroupId == NumAccounts + 2

VARIABLES
    id,             \* Org.id
    publicKey,      \* Org.publicKey
    privateKey,     \* Org.privateKey (in memory only)
    invitesKey,     \* Org.invitesKey (in memory only)
    members,        \* Org.members
    groups,         \* Org.groups
    vaults,         \* Org.vaults
    adminGroup,     \* Org.adminGroup
    everyoneGroup,  \* Org.everyoneGroup
    container,      \* the SharedContainer part of the Org: key, encryptedData, accessors
    signed,         \* signedPublicKey of each account object handed to the org
    vault,          \* the Vault constructed by the last createVault (its local variable)
    nextKey,        \* the next key the provider generates
    task,           \* the running operation and the await it stands at
    last,           \* the outcome of the last finished call
    ops,            \* calls started
    aborts,         \* calls that stopped at an await (failure or cancellation)
    initState,      \* "none", "partial" (initialize started, not finished), "complete"
    initAccount,    \* the account of the last initialize
    accessed,       \* access has succeeded on this object
    loaded,         \* this object was loaded from storage after the last initialize
    generated,      \* the keys the last run of generateKeys produced
    verified,       \* public keys verify() has accepted in the running execution
    wrapped,        \* public keys the running execution wrapped a data key for, unverified
    calls           \* addMember calls made without waiting for one another

vars ==
    <<id, publicKey, privateKey, invitesKey, members, groups, vaults, adminGroup,
      everyoneGroup, container, signed, vault, nextKey, task, last, ops, aborts,
      initState, initAccount, accessed, loaded, generated, verified, wrapped, calls>>

\* What no step of a call that runs alone writes: the fields no method of the
\* class writes, and the calls that overlap.
fixedVars == <<id, groups, vaults, calls>>

\* The org, its groups and the account objects.
orgVars ==
    <<publicKey, privateKey, invitesKey, members, adminGroup, everyoneGroup,
      container, signed>>

\* What is recorded about the run of initialize, generateKeys and access.
historyVars == <<initState, initAccount, accessed, loaded, generated>>

----------------------------------------------------------------------------
\* The crypto provider (specification 4.1).

\* sign(priv, msg, params) -> sig
ProviderSign(priv, msg) == [signer |-> priv, msg |-> msg]

\* verify(pub, sig, msg, params) -> bool
ProviderVerify(pub, sig, msg) == pub # NoKey /\ sig.signer = pub /\ sig.msg = msg

\* rsaWrap(pub, key) -> blob
Wrap(pub, k) == [pub |-> pub, k |-> k]

\* rsaUnwrap(priv, blob) -> key | fail
CanUnwrap(priv, blob) == priv # NoKey /\ blob.pub = priv
Unwrap(priv, blob) == IF CanUnwrap(priv, blob) THEN blob.k ELSE NoKey

\* aeadSeal(key, nonce, aad, plaintext) -> ciphertext
Seal(k, data) == [k |-> k, data |-> data]

\* aeadOpen(key, nonce, aad, ciphertext) -> plaintext | fail
CanOpen(k, ct) == k # NoKey /\ ct.k = k
Open(k, ct) == IF CanOpen(k, ct) THEN ct.data ELSE <<>>

----------------------------------------------------------------------------
\* SharedContainer (specification 4.5).  A container is a record
\* [key, encryptedData, accessors]; a Group and a Vault carry more fields.

NewContainer == [key |-> NoKey, encryptedData |-> NoData, accessors |-> <<>>]

\* The data key is generated when the container has none: setData says so, and
\* the round-trip law (updateAccessors(S); setData(p); access(a); getData() = p)
\* needs updateAccessors on a fresh container to wrap the key setData then uses.
EnsureKey(c, fresh) == IF c.key = NoKey THEN [c EXCEPT !.key = fresh] ELSE c

UsesFresh(c) == c.key = NoKey

\* updateAccessors(list): replace the accessor table, the data key wrapped for each.
UpdateAccessors(c, subjects, fresh) ==
    LET d == EnsureKey(c, fresh)
    IN  [d EXCEPT !.accessors =
            [i \in 1..Len(subjects) |->
                [id |-> subjects[i].id,
                 fp |-> subjects[i].publicKey,
                 wrapped |-> Wrap(subjects[i].publicKey, d.key)]]]

\* setData(plaintext)
SetData(c, data, fresh) ==
    LET d == EnsureKey(c, fresh)
    IN  [d EXCEPT !.encryptedData = Seal(d.key, data)]

\* updateAccessors in two steps: the table is made from the list as it is when the
\* method is called, the wraps are awaited (the provider's calls are the points of
\* suspension), and the table is then stored in one assignment.
AccessorTable(c, subjects, fresh) == UpdateAccessors(c, subjects, fresh).accessors

StoreTable(c, table) == [c EXCEPT !.accessors = table]

\* accessors.find(a => a.id === id): the index of the first entry, 0 when none.
FindAccessor(c, aid) ==
    IF \E i \in 1..Len(c.accessors) : c.accessors[i].id = aid
    THEN CHOOSE i \in 1..Len(c.accessors) :
            /\ c.accessors[i].id = aid
            /\ \A j \in 1..(i - 1) : c.accessors[j].id # aid
    ELSE 0

\* access(accessor): [err, c]; the container is changed only when err = "ok".
ContainerAccess(c, accessor) ==
    LET i == FindAccessor(c, accessor.id)
    IN  IF i = 0 THEN [err |-> "MissingAccess", c |-> c]
        ELSE IF c.accessors[i].fp # accessor.publicKey
             THEN [err |-> "KeyMismatch", c |-> c]
        ELSE IF ~CanUnwrap(accessor.privateKey, c.accessors[i].wrapped)
             THEN [err |-> "DecryptionFailed", c |-> c]
        ELSE [err |-> "ok",
              c |-> [c EXCEPT !.key = Unwrap(accessor.privateKey, c.accessors[i].wrapped)]]

AccessorIds(c) == {c.accessors[i].id : i \in 1..Len(c.accessors)}

----------------------------------------------------------------------------
\* Group (specification 4.6): a container whose payload is <<privateKey>>.

NewGroup(gid) ==
    [id |-> gid, key |-> NoKey, encryptedData |-> NoData, accessors |-> <<>>,
     publicKey |-> NoKey, privateKey |-> NoKey, signedPublicKey |-> NoSig]

\* generateKeys(): a new RSA pair, the private key stored as the payload.
GroupGenerateKeys(g, pair, fresh) ==
    SetData([g EXCEPT !.publicKey = pair, !.privateKey = pair], <<pair>>, fresh)

\* access(account): unlock the container, then load the private key from the payload.
GroupAccess(g, account) ==
    LET r == ContainerAccess(g, account)
    IN  IF r.err # "ok" THEN r
        ELSE IF r.c.encryptedData = NoData THEN r
        ELSE IF ~CanOpen(r.c.key, r.c.encryptedData)
             THEN [err |-> "DecryptionFailed", c |-> r.c]
        ELSE [err |-> "ok",
              c |-> [r.c EXCEPT !.privateKey = Open(r.c.key, r.c.encryptedData)[1]]]

\* isMember(m)
IsMember(g, m) == m.id \in AccessorIds(g)

\* What is left of a group when it is stored and loaded again.
LockedGroup(g) == [g EXCEPT !.key = NoKey, !.privateKey = NoKey]

----------------------------------------------------------------------------
\* The objects handed to the org.

\* An Account object: its id, name, email and key pair, and the signedPublicKey
\* that sign() has written into it.
Account(a) ==
    [id |-> a, name |-> a, email |-> a, publicKey |-> a, privateKey |-> a,
     signedPublicKey |-> signed[a]]

\* The fields the class OrgMember initialises itself.
OrgMemberDefaults == [id |-> 0, name |-> 0, email |-> 0]

\* new OrgMember(vals): Object.assign(this, vals) copies every field of vals.
OrgMember(vals) ==
    [f \in DOMAIN OrgMemberDefaults \cup DOMAIN vals |->
        IF f \in DOMAIN vals THEN vals[f] ELSE OrgMemberDefaults[f]]

Idle == [pc |-> "idle", op |-> "none", account |-> 0]

\* What is recorded of a call: the method, its account argument (0 when it has
\* none), its name argument ("" when it has none), how it ended, whether the
\* org held no key in memory when it began, the members and the accessors of the
\* everyone group when it began, and the objects it returned to its caller.
Outcome(op, a, res) ==
    [op |-> op, arg |-> a, name |-> "", result |-> res, locked |-> FALSE,
     before |-> [members |-> members, everyone |-> everyoneGroup.accessors],
     value |-> {}]

NoVault == [name |-> "", org |-> "", key |-> NoKey, encryptedData |-> NoData,
            accessors |-> <<>>]

\* An addMember call that overlaps others: where it stands, its account, and the
\* accessor table its updateAccessors has computed and not yet stored.
NoCall == [pc |-> "new", account |-> 0, table |-> <<>>]

NoCalls == [c \in CallIds |-> NoCall]

Init ==
    /\ id \in OrgIds
    /\ publicKey = NoKey
    /\ privateKey = NoKey
    /\ invitesKey = NoKey
    /\ members = <<>>
    /\ groups = <<>>
    /\ vaults = <<>>
    /\ adminGroup = NewGroup(AdminGroupId)
    /\ everyoneGroup = NewGroup(EveryoneGroupId)
    /\ container = NewContainer
    /\ signed = [a \in Accounts |-> NoSig]
    /\ vault = NoVault
    /\ nextKey = NumAccounts + 1
    /\ task = Idle
    /\ last = Outcome("none", 0, "ok")
    /\ ops = 0
    /\ aborts = 0
    /\ initState = "none"
    /\ initAccount = 0
    /\ accessed = FALSE
    /\ loaded = FALSE
    /\ generated = [privateKey |-> NoKey, invitesKey |-> NoKey, atInit |-> FALSE]
    /\ verified = {}
    /\ wrapped = {}
    /\ calls = NoCalls

----------------------------------------------------------------------------
\* Calls and their steps.  A call starts when no other call on the org runs
\* (single writer per entity); each step runs to the next await.

\* A call begins: a new execution, in which nothing is verified or wrapped yet, and
\* the vault of an earlier createVault is out of scope.
Begin(op, a) ==
    /\ task.pc = "idle"
    /\ ops < MaxOps
    /\ ops' = ops + 1
    /\ verified' = {}
    /\ UNCHANGED <<fixedVars, aborts>>

\* A call that runs on: to its first await.
Await(op, a, pc) ==
    /\ Begin(op, a)
    /\ task' = [pc |-> pc, op |-> op, account |-> a]
    /\ last' = Outcome(op, a, "running")
    /\ wrapped' = {}
    /\ vault' = NoVault

\* A call that returns or throws without an await in between.
Call(op, a, res) ==
    /\ Begin(op, a)
    /\ task' = Idle
    /\ last' = Outcome(op, a, res)
    /\ wrapped' = {}
    /\ vault' = NoVault

\* A running call moves to its next await.
Goto(pc) ==
    /\ task' = [task EXCEPT !.pc = pc]
    /\ UNCHANGED <<fixedVars, last, ops, aborts, verified>>

\* A running call returns or throws.
Finish(res) ==
    /\ task' = Idle
    /\ last' = [last EXCEPT !.result = res]
    /\ UNCHANGED <<fixedVars, ops, verified>>

\* A running call returns or throws of its own.
End(res) ==
    /\ Finish(res)
    /\ UNCHANGED aborts

\* The keys a step takes from the provider.
TakeKeys(n) == nextKey' = nextKey + n

\* Public keys of `subjects` that no verify() of the running execution accepted.
Unverified(subjects) ==
    {subjects[i].publicKey : i \in 1..Len(subjects)} \ verified

\* isAdmin(m)
IsAdmin(m) == IsMember(adminGroup, m)

\* The provider raises on a key it cannot use: the absent one.
ProviderRaises(pub) == pub = NoKey

\* verify(subj), as what the caller gets: "true", "false", or "raised" when an
\* exception leaves the method.  `raises` says whether the provider's verify throws.
VerifyOutcomeUncaught(subj, raises) ==
    IF subj.signedPublicKey = NoSig THEN "false"
    ELSE IF raises THEN "raised"
    ELSE IF ProviderVerify(publicKey, subj.signedPublicKey, subj.publicKey) THEN "true"
    ELSE "false"

VerifyOutcome(subj, raises) ==
    IF subj.signedPublicKey = NoSig THEN "false"
    ELSE IF raises THEN "false"
    ELSE IF ProviderVerify(publicKey, subj.signedPublicKey, subj.publicKey) THEN "true"
    ELSE "false"

\* verify(subj)
Verify(subj) == VerifyOutcome(subj, ProviderRaises(publicKey)) = "true"

\* sign(obj): the value written to obj.signedPublicKey.
SignedPublicKeyOwnKey(obj) == ProviderSign(obj.privateKey, obj.publicKey)

SignedPublicKey(obj) == ProviderSign(privateKey, obj.publicKey)

\* if (!this.privateKey) throw new Err(ErrorCode.INSUFFICIENT_PERMISSIONS)
AddMemberAllowed == privateKey # NoKey

----------------------------------------------------------------------------
\* initialize(account), lines 188-206.

Initialize(a) ==
    /\ Await("initialize", a, "init_adminAccessors")
    /\ initState' = "partial"
    /\ initAccount' = a
    /\ UNCHANGED <<orgVars, nextKey, accessed, loaded, generated>>

\* await this.adminGroup.updateAccessors([account])
InitAdminAccessors ==
    /\ task.pc = "init_adminAccessors"
    /\ adminGroup' = UpdateAccessors(adminGroup, <<Account(task.account)>>, nextKey)
    /\ TakeKeys(IF UsesFresh(adminGroup) THEN 1 ELSE 0)
    /\ Goto("init_adminKeys")
    /\ UNCHANGED <<publicKey, privateKey, invitesKey, members, everyoneGroup,
                   container, signed, vault, historyVars, wrapped>>

\* await this.adminGroup.generateKeys()
InitAdminKeys ==
    /\ task.pc = "init_adminKeys"
    /\ adminGroup' = GroupGenerateKeys(adminGroup, nextKey, nextKey + 1)
    /\ TakeKeys(IF UsesFresh(adminGroup) THEN 2 ELSE 1)
    /\ Goto("init_orgAccessors")
    /\ UNCHANGED <<publicKey, privateKey, invitesKey, members, everyoneGroup,
                   container, signed, vault, historyVars, wrapped>>

\* The accessors initialize gives the org container.
OrgAccessorsMore == <<adminGroup, Account(task.account)>>

OrgAccessors == <<adminGroup>>

\* await this.updateAccessors([this.adminGroup])
InitOrgAccessors ==
    /\ task.pc = "init_orgAccessors"
    /\ container' = UpdateAccessors(container, OrgAccessors, nextKey)
    /\ TakeKeys(IF UsesFresh(container) THEN 1 ELSE 0)
    /\ wrapped' = wrapped \cup Unverified(OrgAccessors)
    /\ Goto("gk_invites")
    /\ UNCHANGED <<publicKey, privateKey, invitesKey, members, adminGroup,
                   everyoneGroup, signed, vault, historyVars>>

\* await this.addMember(account): the permission check of addMember, line 231.
InitAddMember ==
    /\ task.pc = "init_addMember"
    /\ IF AddMemberAllowed
       THEN Goto("am_sign")
       ELSE End("InsufficientPermissions")
    /\ UNCHANGED <<orgVars, vault, nextKey, historyVars, wrapped>>

\* await this.everyoneGroup.generateKeys()
InitEveryoneKeys ==
    /\ task.pc = "init_everyoneKeys"
    /\ everyoneGroup' = GroupGenerateKeys(everyoneGroup, nextKey, nextKey + 1)
    /\ TakeKeys(IF UsesFresh(everyoneGroup) THEN 2 ELSE 1)
    /\ Goto("init_signAdmin")
    /\ UNCHANGED <<publicKey, privateKey, invitesKey, members, adminGroup, container,
                   signed, vault, historyVars, wrapped>>

\* await this.sign(this.adminGroup)
InitSignAdmin ==
    /\ task.pc = "init_signAdmin"
    /\ adminGroup' = [adminGroup EXCEPT !.signedPublicKey = SignedPublicKey(adminGroup)]
    /\ Goto("init_signEveryone")
    /\ UNCHANGED <<publicKey, privateKey, invitesKey, members, everyoneGroup,
                   container, signed, vault, nextKey, historyVars, wrapped>>

\* await this.sign(this.everyoneGroup), and the return of initialize
InitSignEveryone ==
    /\ task.pc = "init_signEveryone"
    /\ everyoneGroup' =
          [everyoneGroup EXCEPT !.signedPublicKey = SignedPublicKey(everyoneGroup)]
    /\ End("ok")
    /\ initState' = "complete"
    /\ loaded' = FALSE
    /\ generated' = [generated EXCEPT !.atInit = TRUE]
    /\ UNCHANGED <<publicKey, privateKey, invitesKey, members, adminGroup, container,
                   signed, vault, nextKey, initAccount, accessed, wrapped>>

----------------------------------------------------------------------------
\* generateKeys(), lines 208-218.

GenerateKeys ==
    /\ Await("generateKeys", 0, "gk_invites")
    /\ UNCHANGED <<orgVars, nextKey, historyVars>>

\* this.invitesKey = await getProvider().generateKey(new HMACKeyParams())
GkInvites ==
    /\ task.pc = "gk_invites"
    /\ invitesKey' = nextKey
    /\ TakeKeys(1)
    /\ generated' = [generated EXCEPT !.invitesKey = nextKey, !.atInit = FALSE]
    /\ Goto("gk_pair")
    /\ UNCHANGED <<publicKey, privateKey, members, adminGroup, everyoneGroup,
                   container, signed, vault, initState, initAccount, accessed, loaded,
                   wrapped>>

\* const { privateKey, publicKey } = await getProvider().generateKey(new RSAKeyParams())
GkPair ==
    /\ task.pc = "gk_pair"
    /\ privateKey' = nextKey
    /\ publicKey' = nextKey
    /\ TakeKeys(1)
    /\ generated' = [generated EXCEPT !.privateKey = nextKey]
    /\ Goto("gk_setData")
    /\ UNCHANGED <<invitesKey, members, adminGroup, everyoneGroup, container, signed,
                   vault, initState, initAccount, accessed, loaded, wrapped>>

\* marshal({ privateKey, invitesKey }): the payload of the org container.
OrgPayloadSwapped == <<invitesKey, privateKey>>

OrgPayload == <<privateKey, invitesKey>>

\* await this.setData(...), and the return of generateKeys
GkSetData ==
    /\ task.pc = "gk_setData"
    /\ container' = SetData(container, OrgPayload, nextKey)
    /\ TakeKeys(IF UsesFresh(container) THEN 1 ELSE 0)
    /\ IF task.op = "initialize"
       THEN Goto("init_addMember")
       ELSE End("ok")
    /\ UNCHANGED <<publicKey, privateKey, invitesKey, members, adminGroup,
                   everyoneGroup, signed, vault, historyVars, wrapped>>

----------------------------------------------------------------------------
\* addMember(account), lines 230-238.

\* The signatures held by the account objects when addMember throws at line 232:
\* sign(account), line 235, has not run.
SignedAfterSign(a) == [signed EXCEPT ![a] = SignedPublicKey(Account(a))]

SignedAtThrow(a) == signed

AddMember(a) ==
    /\ IF AddMemberAllowed
       THEN /\ Await("addMember", a, "am_sign")
            /\ UNCHANGED signed
       ELSE /\ Call("addMember", a, "InsufficientPermissions")
            /\ signed' = SignedAtThrow(a)
    /\ UNCHANGED <<publicKey, privateKey, invitesKey, members, adminGroup,
                   everyoneGroup, container, nextKey, historyVars>>

\* The record addMember appends: new OrgMember(await this.sign(account)).
NewMember(a) ==
    OrgMember([Account(a) EXCEPT !.signedPublicKey = SignedPublicKey(Account(a))])

\* this.members.push(member)
MembersAfterPushTwice(member) == Append(Append(members, member), member)

MembersAfterPush(member) == Append(members, member)

\* const member = new OrgMember(await this.sign(account)); this.members.push(member)
AmSign ==
    /\ task.pc = "am_sign"
    /\ signed' = [signed EXCEPT ![task.account] = SignedPublicKey(Account(task.account))]
    /\ members' = MembersAfterPush(NewMember(task.account))
    /\ Goto("am_update")
    /\ UNCHANGED <<publicKey, privateKey, invitesKey, adminGroup, everyoneGroup,
                   container, vault, nextKey, historyVars, wrapped>>

\* The accessors addMember gives the everyone group.
EveryoneAccessorsStale == SubSeq(members, 1, Len(members) - 1)

EveryoneAccessorsNewest == <<members[Len(members)]>>

EveryoneAccessors == members

\* await this.everyoneGroup.updateAccessors(this.members), and the return of addMember
AmUpdate ==
    /\ task.pc = "am_update"
    /\ everyoneGroup' = UpdateAccessors(everyoneGroup, EveryoneAccessors, nextKey)
    /\ TakeKeys(IF UsesFresh(everyoneGroup) THEN 1 ELSE 0)
    /\ wrapped' = wrapped \cup Unverified(EveryoneAccessors)
    /\ IF task.op = "initialize"
       THEN Goto("init_everyoneKeys")
       ELSE End("ok")
    /\ UNCHANGED <<publicKey, privateKey, invitesKey, members, adminGroup, container,
                   signed, vault, historyVars>>

----------------------------------------------------------------------------
\* access(account), lines 220-228.

\* await this.adminGroup.access(account)
AccessAdminGroupUnchecked(account) == [err |-> "ok", c |-> adminGroup]

AccessAdminGroup(account) == GroupAccess(adminGroup, account)

\* const { privateKey, invitesKey } = unmarshal(bytesToString(await this.getData()))
PayloadKeys(data) == [privateKey |-> data[1], invitesKey |-> data[2]]

\* The whole call: [err, adminGroup, container, privateKey, invitesKey].  A failure
\* keeps what the steps before it did.
AccessOutcome(account) ==
    LET g == AccessAdminGroup(account)
        keep == [err |-> g.err, adminGroup |-> g.c, container |-> container,
                 privateKey |-> privateKey, invitesKey |-> invitesKey]
    IN  IF g.err # "ok" THEN keep
        ELSE LET r == ContainerAccess(container, g.c)
             IN  IF r.err # "ok" THEN [keep EXCEPT !.err = r.err]
                 ELSE IF r.c.encryptedData = NoData
                      THEN [keep EXCEPT !.container = r.c]
                 ELSE IF ~CanOpen(r.c.key, r.c.encryptedData)
                      THEN [keep EXCEPT !.err = "DecryptionFailed", !.container = r.c]
                 ELSE LET k == PayloadKeys(Open(r.c.key, r.c.encryptedData))
                      IN  [keep EXCEPT !.container = r.c,
                                       !.privateKey = k.privateKey,
                                       !.invitesKey = k.invitesKey]

\* The org holds no key in memory: it is a copy loaded from storage.
Locked ==
    /\ privateKey = NoKey
    /\ invitesKey = NoKey
    /\ container.key = NoKey
    /\ adminGroup.key = NoKey
    /\ adminGroup.privateKey = NoKey
    /\ everyoneGroup.key = NoKey
    /\ everyoneGroup.privateKey = NoKey

Access(a) ==
    /\ LET out == AccessOutcome(Account(a))
       IN  /\ Begin("access", a)
           /\ task' = Idle
           /\ last' = [Outcome("access", a, out.err) EXCEPT !.locked = Locked]
           /\ wrapped' = {}
           /\ vault' = NoVault
           /\ adminGroup' = out.adminGroup
           /\ container' = out.container
           /\ privateKey' = out.privateKey
           /\ invitesKey' = out.invitesKey
           /\ accessed' = (accessed \/ out.err = "ok")
    /\ UNCHANGED <<publicKey, members, everyoneGroup, signed, nextKey, initState,
                   initAccount, loaded, generated>>

----------------------------------------------------------------------------
\* sign(obj), lines 240-243, called from outside on a member record or a group.
\* The provider refuses an absent private key.

SignMember(i) ==
    /\ i \in 1..Len(members)
    /\ IF privateKey = NoKey
       THEN /\ Call("sign", members[i].id, "error")
            /\ UNCHANGED members
       ELSE /\ Call("sign", members[i].id, "ok")
            /\ members' = [members EXCEPT ![i].signedPublicKey = SignedPublicKey(members[i])]
    /\ UNCHANGED <<publicKey, privateKey, invitesKey, adminGroup, everyoneGroup,
                   container, signed, nextKey, historyVars>>

SignAdminGroup ==
    /\ IF privateKey = NoKey
       THEN /\ Call("sign", AdminGroupId, "error")
            /\ UNCHANGED adminGroup
       ELSE /\ Call("sign", AdminGroupId, "ok")
            /\ adminGroup' =
                  [adminGroup EXCEPT !.signedPublicKey = SignedPublicKey(adminGroup)]
    /\ UNCHANGED <<publicKey, privateKey, invitesKey, members, everyoneGroup,
                   container, signed, nextKey, historyVars>>

SignEveryoneGroup ==
    /\ IF privateKey = NoKey
       THEN /\ Call("sign", EveryoneGroupId, "error")
            /\ UNCHANGED everyoneGroup
       ELSE /\ Call("sign", EveryoneGroupId, "ok")
            /\ everyoneGroup' =
                  [everyoneGroup EXCEPT !.signedPublicKey = SignedPublicKey(everyoneGroup)]
    /\ UNCHANGED <<publicKey, privateKey, invitesKey, members, adminGroup, container,
                   signed, nextKey, historyVars>>

----------------------------------------------------------------------------
\* verify(subj), lines 245-259, called from outside on a member or a group.

Subjects == {members[i] : i \in 1..Len(members)} \cup {adminGroup, everyoneGroup}

VerifyCall ==
    /\ task.pc = "idle"
    /\ ops < MaxOps
    /\ ops' = ops + 1
    /\ \E subj \in Subjects :
          /\ verified' = IF Verify(subj) THEN {subj.publicKey} ELSE {}
          /\ last' = Outcome("verify", subj.id, IF Verify(subj) THEN "true" ELSE "false")
    /\ vault' = NoVault
    /\ wrapped' = {}
    /\ UNCHANGED <<fixedVars, orgVars, nextKey, task, aborts, historyVars>>

----------------------------------------------------------------------------
\* createVault(name), lines 261-266.

\* vault.name = name; vault.org = this.id
VaultFieldsCrossed(name) == [NoVault EXCEPT !.name = id, !.org = name]

VaultFields(name) == [NoVault EXCEPT !.name = name, !.org = id]

\* The accessors createVault gives the vault.
VaultAccessors == <<adminGroup>>

\* What createVault hands its caller: the method has no return statement.
CreateVaultValueVault(v) == {v}

CreateVaultValue(v) == {}

\* The provider refuses to wrap for an absent public key.
CanWrapFor(subjects) == \A i \in 1..Len(subjects) : subjects[i].publicKey # NoKey

\* The vault is a local variable of createVault: the data key made for it is out
\* of reach once the next call begins, so its number is not used up.
CreateVault(name) ==
    /\ Begin("createVault", 0)
    /\ task' = Idle
    /\ IF CanWrapFor(VaultAccessors)
       THEN /\ vault' = UpdateAccessors(VaultFields(name), VaultAccessors, nextKey)
            /\ last' = [Outcome("createVault", 0, "ok")
                           EXCEPT !.name = name, !.value = CreateVaultValue(vault')]
            /\ wrapped' = Unverified(VaultAccessors)
       ELSE /\ last' = [Outcome("createVault", 0, "error") EXCEPT !.name = name]
            /\ vault' = VaultFields(name)
            /\ wrapped' = {}
    /\ UNCHANGED <<orgVars, nextKey, historyVars>>

----------------------------------------------------------------------------
\* The org stored and loaded again (toRaw, fromRaw): what is held in memory only
\* (the data keys, the private keys, the invites key) is gone.

Reload ==
    /\ task.pc = "idle"
    /\ privateKey' = NoKey
    /\ invitesKey' = NoKey
    /\ container' = [container EXCEPT !.key = NoKey]
    /\ adminGroup' = LockedGroup(adminGroup)
    /\ everyoneGroup' = LockedGroup(everyoneGroup)
    /\ vault' = NoVault
    /\ accessed' = FALSE
    /\ loaded' = TRUE
    /\ last' = Outcome("load", 0, "ok")
    /\ verified' = {}
    /\ wrapped' = {}
    /\ UNCHANGED <<fixedVars, publicKey, members, signed, nextKey, task, ops, aborts,
                   initState, initAccount, generated>>

\* A running call stops at the await it stands at: the awaited promise rejects, or
\* the caller gives up.  What its steps did so far stays.
Abort ==
    /\ task.pc # "idle"
    /\ aborts < MaxAborts
    /\ aborts' = aborts + 1
    /\ Finish("aborted")
    /\ UNCHANGED <<orgVars, vault, nextKey, historyVars, wrapped>>

Next ==
    \/ \E a \in Accounts : Initialize(a)
    \/ InitAdminAccessors
    \/ InitAdminKeys
    \/ InitOrgAccessors
    \/ InitAddMember
    \/ InitEveryoneKeys
    \/ InitSignAdmin
    \/ InitSignEveryone
    \/ GenerateKeys
    \/ GkInvites
    \/ GkPair
    \/ GkSetData
    \/ \E a \in Accounts : AddMember(a)
    \/ AmSign
    \/ AmUpdate
    \/ \E a \in Accounts : Access(a)
    \/ \E i \in 1..Len(members) : SignMember(i)
    \/ SignAdminGroup
    \/ SignEveryoneGroup
    \/ VerifyCall
    \/ \E name \in VaultNames : CreateVault(name)
    \/ Reload
    \/ Abort

Spec == Init /\ [][Next]_vars

----------------------------------------------------------------------------
\* addMember calls on one org object that do not wait for one another: the class
\* holds no lock, so each runs to its next await while the others stand at theirs.

\* What a step of an overlapping addMember leaves alone.
overlapFrame ==
    <<id, groups, vaults, publicKey, privateKey, invitesKey, adminGroup, container,
      vault, task, last, ops, aborts, initState, initAccount, accessed, loaded,
      generated, verified, wrapped>>

\* addMember(a) up to the await in sign: the permission check, lines 231-233, and
\* the call of the provider's sign, line 241.
CallAddMember(c, a) ==
    /\ task.pc = "idle"
    /\ calls[c].pc = "new"
    /\ calls' = [calls EXCEPT ![c] =
                    [pc |-> IF AddMemberAllowed THEN "sign" ELSE "rejected",
                     account |-> a, table |-> <<>>]]
    /\ UNCHANGED <<members, everyoneGroup, signed, nextKey, overlapFrame>>

\* From the provider's signature to the await in updateAccessors: lines 241-242,
\* 235, 236 and the call at line 237 with the members as they are now.
CallSign(c) ==
    /\ calls[c].pc = "sign"
    /\ LET a == calls[c].account
           pushed == MembersAfterPush(NewMember(a))
       IN  /\ signed' = [signed EXCEPT ![a] = SignedPublicKey(Account(a))]
           /\ members' = pushed
           /\ everyoneGroup' = EnsureKey(everyoneGroup, nextKey)
           /\ TakeKeys(IF UsesFresh(everyoneGroup) THEN 1 ELSE 0)
           /\ calls' = [calls EXCEPT
                           ![c].pc = "update",
                           ![c].table = AccessorTable(everyoneGroup, pushed, nextKey)]
    /\ UNCHANGED overlapFrame

\* updateAccessors stores its table, and addMember returns, lines 237-238.
CallUpdate(c) ==
    /\ calls[c].pc = "update"
    /\ everyoneGroup' = StoreTable(everyoneGroup, calls[c].table)
    /\ calls' = [calls EXCEPT ![c].pc = "done"]
    /\ UNCHANGED <<members, signed, nextKey, overlapFrame>>

\* initialize(account), called while no addMember call is under way.
InitializeAlone(a) ==
    /\ calls = NoCalls
    /\ Initialize(a)

NextOverlap ==
    \/ \E a \in Accounts : InitializeAlone(a)
    \/ InitAdminAccessors
    \/ InitAdminKeys
    \/ InitOrgAccessors
    \/ GkInvites
    \/ GkPair
    \/ GkSetData
    \/ InitAddMember
    \/ AmSign
    \/ AmUpdate
    \/ InitEveryoneKeys
    \/ InitSignAdmin
    \/ InitSignEveryone
    \/ \E c \in CallIds, a \in Accounts : CallAddMember(c, a)
    \/ \E c \in CallIds : CallSign(c)
    \/ \E c \in CallIds : CallUpdate(c)

SpecOverlap == Init /\ [][NextOverlap]_vars

----------------------------------------------------------------------------
\* Properties.

MemberIds == {members[i].id : i \in 1..Len(members)}

\* C1: after initialize has completed, an addMember that no access precedes is
\* rejected with InsufficientPermissions (it passes no check, adds no member), on
\* the object that ran initialize and on a loaded one.
C1_AdminGating ==
    (initState = "complete" /\ ~accessed /\ last.op = "addMember")
        => last.result = "InsufficientPermissions"

\* C2: after any sequence of completed initialize, generateKeys, access, addMember
\* and sign calls, verify(m) is true of every member m.
C2_MembersVerify ==
    (task.pc = "idle" /\ aborts = 0) => \A i \in 1..Len(members) : Verify(members[i])

\* C3: after a completed initialize or addMember, and whenever no call has stopped
\* half way, the accessor ids of the everyone group are the ids of the members.
C3_EveryoneSync ==
    (/\ task.pc = "idle"
     /\ \/ aborts = 0
        \/ last.op \in {"initialize", "addMember"} /\ last.result = "ok")
        => AccessorIds(everyoneGroup) = MemberIds

C3_Witness ==
    /\ task.pc = "idle"
    /\ last.op = "addMember"
    /\ last.result = "ok"
    /\ Cardinality(MemberIds) >= 2
    /\ AccessorIds(everyoneGroup) = MemberIds

\* C4: access succeeds only on an org whose initialize ran to its end, and never
\* while the org payload is not sealed.
C4_InitializeTransactional ==
    (last.op = "access" /\ last.result = "ok")
        => (initState = "complete" /\ container.encryptedData # NoData)

\* C5: after initialize(a) has completed, access(a) on a copy of the org that holds
\* no key in memory succeeds, and leaves in privateKey and invitesKey the keys that
\* generateKeys produced during that initialize; the admin group is unlocked with
\* the account, the org container with the admin group.
C5_AccessRoundTrip ==
    (/\ last.op = "access"
     /\ last.locked
     /\ last.arg = initAccount
     /\ initState = "complete"
     /\ generated.atInit)
        => /\ last.result = "ok"
           /\ privateKey = generated.privateKey
           /\ invitesKey = generated.invitesKey
           /\ privateKey # NoKey
           /\ invitesKey # NoKey
           /\ adminGroup.privateKey = adminGroup.publicKey
           /\ container.key = container.encryptedData.k

C5_Witness ==
    /\ last.op = "access"
    /\ last.locked
    /\ last.arg = initAccount
    /\ initState = "complete"
    /\ generated.atInit
    /\ last.result = "ok"
    /\ privateKey = generated.privateKey
    /\ invitesKey = generated.invitesKey

\* C6: access(x) by an account x that is no accessor of the admin group fails with
\* MissingAccess, and leaves privateKey, invitesKey, the org container and the
\* admin group as they were.
C6_AccessConfinement ==
    [][(/\ task.pc = "idle"
        /\ ops' = ops + 1
        /\ last'.op = "access"
        /\ last'.arg \notin AccessorIds(adminGroup))
           => /\ last'.result = "MissingAccess"
              /\ UNCHANGED <<privateKey, invitesKey, container, adminGroup>>]_vars

C6_Witness ==
    /\ last.op = "access"
    /\ last.result = "MissingAccess"
    /\ last.arg \in MemberIds
    /\ last.arg \notin AccessorIds(adminGroup)
    /\ initState = "complete"
    /\ privateKey # NoKey

\* C7: once initialize has run its updateAccessors step, the accessor table of the
\* org container holds one entry, that of the admin group; after a completed
\* initialize the entry is made for the admin group's public key.
C7_SoleAccessor ==
    (\/ container.accessors # <<>>
     \/ initState = "complete"
     \/ task.pc \in {"gk_invites", "gk_pair", "gk_setData"} /\ task.op = "initialize")
        => /\ Len(container.accessors) = 1
           /\ container.accessors[1].id = AdminGroupId
           /\ initState = "complete" =>
                 /\ container.accessors[1].fp = adminGroup.publicKey
                 /\ container.accessors[1].wrapped.pub = adminGroup.publicKey

C7_Witness ==
    /\ initState = "complete"
    /\ task.pc = "idle"
    /\ last.op \in {"addMember", "createVault", "access"}
    /\ last.result = "ok"
    /\ Len(members) >= 2
    /\ Len(container.accessors) = 1
    /\ container.accessors[1].id = AdminGroupId

\* What account a obtains from a stored copy of group g: access(a), then getData().
GroupKeyFor(g, a) ==
    LET r == GroupAccess(LockedGroup(g), Account(a))
    IN  IF r.err = "ok" THEN r.c.privateKey ELSE NoKey

\* C8: after initialize and a later addMember on the same org object, every member
\* is an accessor of the everyone group and obtains from it the private key that
\* the group's generateKeys sealed.
C8_MemberGroupKey ==
    (/\ task.pc = "idle"
     /\ last.op = "addMember"
     /\ last.result = "ok"
     /\ initState = "complete"
     /\ ~loaded)
        => \A a \in MemberIds :
              /\ a \in AccessorIds(everyoneGroup)
              /\ GroupKeyFor(everyoneGroup, a) = everyoneGroup.publicKey
              /\ GroupKeyFor(everyoneGroup, a) # NoKey

C8_Witness ==
    /\ task.pc = "idle"
    /\ last.op = "addMember"
    /\ last.result = "ok"
    /\ initState = "complete"
    /\ ~loaded
    /\ accessed
    /\ last.arg # initAccount
    /\ {last.arg, initAccount} \subseteq MemberIds
    /\ GroupKeyFor(everyoneGroup, last.arg) = everyoneGroup.publicKey
    /\ GroupKeyFor(everyoneGroup, initAccount) = everyoneGroup.publicKey

\* C9: every public key that initialize, addMember or createVault wraps a data key
\* for has been verified against the org's signing key earlier in the same call.
C9_VerifyBeforeWrap == wrapped = {}

\* C10: createVault(name) constructs a vault named name, whose org is the id of the
\* org and whose accessor table holds the admin group alone.
C10_CreateVault ==
    (last.op = "createVault" /\ last.result = "ok")
        => /\ vault.name = last.name
           /\ vault.org = id
           /\ Len(vault.accessors) = 1
           /\ vault.accessors[1].id = AdminGroupId
           /\ vault.accessors[1].fp = adminGroup.publicKey
           /\ vault.accessors[1].wrapped = Wrap(adminGroup.publicKey, vault.key)
           /\ vault.key # NoKey

C10_Witness ==
    /\ last.op = "createVault"
    /\ last.result = "ok"
    /\ last.name = "Secrets"
    /\ vault.name = "Secrets"
    /\ vault.org = id
    /\ initState = "complete"
    /\ AccessorIds(vault) = {AdminGroupId}

\* C11: once initialize has completed, verify(adminGroup) and verify(everyoneGroup)
\* are true, and stay true over later access and addMember calls (and over every
\* other call that generates no org key and starts no new initialize).
C11_GroupsVerify ==
    (initState = "complete" /\ generated.atInit /\ task.pc = "idle")
        => (Verify(adminGroup) /\ Verify(everyoneGroup))

C11_Witness ==
    /\ initState = "complete"
    /\ generated.atInit
    /\ task.pc = "idle"
    /\ accessed
    /\ last.op = "addMember"
    /\ last.result = "ok"
    /\ last.arg # initAccount
    /\ Verify(adminGroup)
    /\ Verify(everyoneGroup)

\* C12: an addMember(x) that stops after its permission check, while signing or
\* while the everyone group is updated, leaves the members and the accessors of
\* the everyone group as they were when the call began.
C12_NoPartialEnrollment ==
    (task.pc = "idle" /\ last.op = "addMember" /\ last.result = "aborted")
        => /\ members = last.before.members
           /\ everyoneGroup.accessors = last.before.everyone

\* The subjects verify is tried on: every public key and every signature, present
\* or absent, made of the accounts' keys and the org's current key.
TestKeys == (0..NumAccounts) \cup {publicKey}

TestSubjects ==
    [publicKey : TestKeys,
     signedPublicKey : {NoSig} \cup [signer : TestKeys \ {NoKey}, msg : TestKeys]]

\* C13: wherever verify is called, verify(subj) returns true exactly when
\* subj.signedPublicKey is present and is a signature made with the org's current
\* key pair over subj's current publicKey, and the provider does not raise; it
\* returns false otherwise (no signature, publicKey changed since signing,
\* provider raising) and never raises.
C13_VerifyFunction ==
    last.op = "verify" =>
    \A subj \in TestSubjects, raises \in BOOLEAN :
        /\ VerifyOutcome(subj, raises) \in {"true", "false"}
        /\ VerifyOutcome(subj, raises) = "true"
              <=> /\ subj.signedPublicKey # NoSig
                  /\ publicKey # NoKey
                  /\ subj.signedPublicKey.signer = publicKey
                  /\ subj.signedPublicKey.msg = subj.publicKey
                  /\ ~raises

C13_Witness ==
    /\ last.op = "verify"
    /\ last.result = "true"
    /\ \E i \in 1..Len(members) :
          /\ members[i].id = last.arg
          /\ VerifyOutcome(members[i], FALSE) = "true"
          /\ VerifyOutcome(members[i], TRUE) = "false"
          /\ VerifyOutcome([members[i] EXCEPT !.publicKey = publicKey], FALSE) = "false"
          /\ VerifyOutcome([members[i] EXCEPT !.signedPublicKey = NoSig], FALSE) = "false"

\* C14: an addMember(x) that fails with InsufficientPermissions leaves the members,
\* the accessors of the everyone group and the signedPublicKey of every account
\* object, x's included, as they were.
C14_RejectedAddMember ==
    [][(/\ task.pc = "idle"
        /\ ops' = ops + 1
        /\ last'.op = "addMember"
        /\ last'.result = "InsufficientPermissions")
           => /\ members' = members
              /\ everyoneGroup'.accessors = everyoneGroup.accessors
              /\ signed' = signed]_vars

C14_Witness ==
    /\ task.pc = "idle"
    /\ last.op = "addMember"
    /\ last.result = "InsufficientPermissions"
    /\ initState = "complete"
    /\ last.arg \notin MemberIds
    /\ signed[last.arg] = NoSig
    /\ members = last.before.members
    /\ members # <<>>
    /\ everyoneGroup.accessors = last.before.everyone

\* C15: no step of an addMember call changes the admin group, the org container
\* (its accessor table and its sealed payload), the org key pair or the invites
\* key; a successful addMember(x) leaves the members it found with one record for
\* x appended; and after a completed initialize, x is no admin unless it is the
\* initializing account.
C15_NoEscalation ==
    [][/\ (task.op = "addMember" \/ task'.op = "addMember" \/
            (task.pc = "idle" /\ ops' = ops + 1 /\ last'.op = "addMember"))
           => UNCHANGED <<adminGroup, container, publicKey, privateKey, invitesKey>>
       /\ (task.op = "addMember" /\ last'.result = "ok")
           => /\ Len(members') = Len(last'.before.members) + 1
              /\ SubSeq(members', 1, Len(members') - 1) = last'.before.members
              /\ members'[Len(members')].id = last'.arg
              /\ (initState = "complete" /\ last'.arg # initAccount)
                    => last'.arg \notin AccessorIds(adminGroup')]_vars

C15_Witness ==
    /\ task.pc = "idle"
    /\ last.op = "addMember"
    /\ last.result = "ok"
    /\ initState = "complete"
    /\ last.arg # initAccount
    /\ Len(members) = Len(last.before.members) + 1
    /\ members[Len(members)].id = last.arg
    /\ ~IsAdmin(Account(last.arg))
    /\ IsAdmin(Account(initAccount))

\* C17: every record in members has the fields id, name, email, publicKey and
\* signedPublicKey, and no other field of the account object it was made from.
C17_MemberFields ==
    \A i \in 1..Len(members) :
        DOMAIN members[i] = {"id", "name", "email", "publicKey", "signedPublicKey"}

\* C18: after initialize, and after any addMember that follows it, members holds
\* at most one record per account id.
C18_UniqueMemberIds ==
    initState = "complete"
        => \A i, j \in 1..Len(members) : members[i].id = members[j].id => i = j

\* C19: createVault(name) leaves the org's vaults, members and groups, the
\* accessor tables of the org container, the admin group and the everyone group,
\* and the org keys as they were, and returns no vault.
C19_CreateVaultFrame ==
    [][(task.pc = "idle" /\ ops' = ops + 1 /\ last'.op = "createVault")
           => /\ UNCHANGED <<vaults, members, groups, publicKey, privateKey, invitesKey>>
              /\ container'.accessors = container.accessors
              /\ adminGroup'.accessors = adminGroup.accessors
              /\ everyoneGroup'.accessors = everyoneGroup.accessors
              /\ last'.value = {}]_vars

C19_Witness ==
    /\ last.op = "createVault"
    /\ last.result = "ok"
    /\ last.value = {}
    /\ vault.name = last.name
    /\ AccessorIds(vault) = {AdminGroupId}
    /\ vaults = <<>>
    /\ initState = "complete"
    /\ Len(members) >= 2

\* C16: when addMember calls on one unlocked org overlap at their awaits, then
\* once all have returned every account added is in members and the accessor ids
\* of the everyone group are the ids of the members.
C16_NoLostUpdate ==
    (\A c \in CallIds : calls[c].pc = "done")
        => /\ \A c \in CallIds : calls[c].account \in MemberIds
           /\ AccessorIds(everyoneGroup) = MemberIds

====
